---- MODULE Spec2Model ----
(***************************************************************************)
(* minitable: a windowed grid over a large table.                          *)
(*                                                                         *)
(*   - the BFF (src/bff/src/index.ts): GET /api/rows, PATCH /api/rows/:id, *)
(*     io.emit('cell-updated') through socket.io with an optional Redis    *)
(*     adapter, run as several stateless processes over one Postgres table;*)
(*   - the viewer session (App, the TSX kept in src/db/init.sql): the      *)
(*     sparse row store rowsMapRef / idToIdxRef, the fetch ledger          *)
(*     fetchedPagesRef / fetchingPagesRef, fetchPage, the viewport effect, *)
(*     the 'cell-updated' handler and updateCell.                          *)
(*                                                                         *)
(* Every await of the code is a step boundary: the request, the server's   *)
(* handling and the continuation after the await are separate actions.     *)
(***************************************************************************)
EXTENDS Integers, Sequences, FiniteSets, TLC

(***************************************************************************)
(* Bounds of the model.  PAGE_SIZE is 150 in the code (init.sql:71); the   *)
(* model scales it down together with the table so that several pages fit. *)
(***************************************************************************)
PAGE_SIZE == 2
NumRows == 3
\* the PATCH requests made in one behaviour
MaxWrites == 1
RaceWrites == 2
\* the rows of the table the sessions scroll over: four full pages
ScrollRows == 8

(* Program constants of GET /api/rows. *)
DefaultLimit == 150
MaxLimit == 500

Sessions == {1, 2}
Procs == {1, 2}
\* the websocket of session s is held by process ProcOf(s); its HTTP requests
\* are balanced over all processes
ProcOf(s) == s
\* the sessions whose user edits cells
Editors == {1}

\* two of the text columns the grid edits in place, and the texts typed
Fields == {"tasks_name", "compose"}
Values == {"a", "b"}
DbColumns == {"id"} \cup Fields

Min(a, b) == IF a < b THEN a ELSE b
Max(a, b) == IF a > b THEN a ELSE b

(***************************************************************************)
(* The backing store: the table creative_tasks, a set of rows with unique  *)
(* ids (the primary key).                                                  *)
(***************************************************************************)
SeedRow(i) == [id |-> i, tasks_name |-> "a", compose |-> "a"]
SeededDb == {SeedRow(i) : i \in 1..NumRows}

IdsOf(d) == {r.id : r \in d}
RowById(d, i) == CHOOSE r \in d : r.id = i
\* 0-based rank of a row by ascending id: its position
Rank(d, r) == Cardinality({q \in d : q.id < r.id})

\* SELECT * FROM creative_tasks ORDER BY id ASC LIMIT limit OFFSET offset
SelectRows(d, limit, offset) ==
  LET k == Max(0, Min(limit, Cardinality(d) - offset))
  IN  [j \in 1..k |-> CHOOSE r \in d : Rank(d, r) = offset + j - 1]

\* A query parameter is the string of the URL, "" when the parameter is
\* missing.  parseInt reads a decimal numeral, or the numeral a string starts
\* with, and gives NaN for any other string; Numerals are the integers whose
\* numerals the model sends.
Numerals == (-1)..(ScrollRows + 2) \cup {MaxLimit, MaxLimit + 1}
NumeralPrefix == ("2x" :> 2) @@ ("1.5" :> 1)
NaN == [nan |-> TRUE, val |-> 0]
ParseInt(q) ==
  IF \E n \in Numerals : ToString(n) = q
    THEN [nan |-> FALSE, val |-> CHOOSE n \in Numerals : ToString(n) = q]
  ELSE IF q \in DOMAIN NumeralPrefix
    THEN [nan |-> FALSE, val |-> NumeralPrefix[q]]
  ELSE NaN

\* n || d: d when n is NaN or 0
OrElse(n, d) == IF n.nan \/ n.val = 0 THEN d ELSE n.val

\* the limit read as 1 when the parameter is "0"
EffLimitZeroAsOne(q) ==
  Min(Max(1, IF ParseInt(q).nan THEN DefaultLimit ELSE ParseInt(q).val), MaxLimit)

\* parseInt(q) || 150, clamped to 1..500; parseInt(q) || 0, clamped to >= 0
EffLimit(q) == Min(Max(1, OrElse(ParseInt(q), DefaultLimit)), MaxLimit)
EffOffset(q) == Max(0, OrElse(ParseInt(q), 0))

\* the body of a 200 answer of GET /api/rows, and of its 500 answer
RowsJson(d, qlimit, qoffset) ==
  [data   |-> SelectRows(d, EffLimit(qlimit), EffOffset(qoffset)),
   total  |-> Cardinality(d),
   limit  |-> EffLimit(qlimit),
   offset |-> EffOffset(qoffset)]
DbErrorJson == [error |-> "Database error"]

NoRes == [status |-> 0]

VARIABLES
  db,            \* the table
  adapter,       \* adapter[p]: process p has attached the Redis adapter
  chan,          \* chan[p]: rows published on Redis, not yet relayed by p
  sock,          \* sock[s]: 'cell-updated' rows on the wire to session s
  uplink,        \* uplink[s]: events session s has emitted on its socket
  reads,         \* reads[s]: the session's GET requests not yet settled
  writes,        \* writes[w]: the w-th PATCH request made, with its progress
  rowsMap,       \* rowsMapRef:      position -> row
  idToIdx,       \* idToIdxRef:      id -> position
  fetchedPages,  \* fetchedPagesRef
  fetchingPages, \* fetchingPagesRef
  total,
  loadedCount,
  editingCell

vars == <<db, adapter, chan, sock, uplink, reads, writes, rowsMap, idToIdx,
          fetchedPages, fetchingPages, total, loadedCount, editingCell>>

serverVars == <<db, adapter, chan>>
storeVars == <<rowsMap, idToIdx, total, loadedCount>>
ledgerVars == <<fetchedPages, fetchingPages>>

Empty == [x \in {} |-> x]
NoEdit == [rowId |-> 0]

\* a PATCH request not made yet, and one whose fetch() has settled
NotSent == [phase |-> "none"]
Settled == [phase |-> "settled"]

(***************************************************************************)
(* The viewer session: fetchPage and the viewport effect.                  *)
(***************************************************************************)
DEMO_ERRORS ==
  (2 :> "Missing brief & deadline") @@ (4 :> "No assigned owner")
    @@ (6 :> "Status not set - blocked")

\* if (DEMO_ERRORS[row.id]) row.marcus_error = DEMO_ERRORS[row.id]
WithDemoError(row) ==
  IF row.id \in DOMAIN DEMO_ERRORS
    THEN [f \in DOMAIN row \cup {"marcus_error"} |->
            IF f = "marcus_error" THEN DEMO_ERRORS[row.id] ELSE row[f]]
    ELSE row

\* fetch(`/api/rows?limit=${PAGE_SIZE}&offset=${page * PAGE_SIZE}`)
ReadRequest(page) ==
  [page |-> page, limit |-> ToString(PAGE_SIZE), offset |-> ToString(page * PAGE_SIZE),
   st |-> "sent", res |-> NoRes]

RemoveAt(q, i) == [j \in 1..(Len(q) - 1) |-> IF j < i THEN q[j] ELSE q[j + 1]]

\* the synchronous part of fetchPage(page), up to its first await, on the
\* ledger led = [fetching, reads] of a session whose fetched pages are fetched
FetchPageCallNoInFlightGuard(led, fetched, page) ==
  IF page \in fetched THEN led
  ELSE [fetching |-> led.fetching \cup {page},
        reads    |-> Append(led.reads, ReadRequest(page))]

\* fetchPage asking again for a page it has fetched
FetchPageCallNoFetchedGuard(led, fetched, page) ==
  IF page \in led.fetching THEN led
  ELSE [fetching |-> led.fetching \cup {page},
        reads    |-> Append(led.reads, ReadRequest(page))]

\* fetchPage waiting for every outstanding request before it sends another
FetchPageCallOneAtATime(led, fetched, page) ==
  IF page \in fetched THEN led
  ELSE IF led.fetching # {} THEN led
  ELSE [fetching |-> led.fetching \cup {page},
        reads    |-> Append(led.reads, ReadRequest(page))]

FetchPageCall(led, fetched, page) ==
  IF page \in fetched THEN led
  ELSE IF page \in led.fetching THEN led
  ELSE [fetching |-> led.fetching \cup {page},
        reads    |-> Append(led.reads, ReadRequest(page))]

\* the loop calling fetchPage as if no page had been fetched yet
RECURSIVE ForPagesIgnoringFetched(_, _, _, _)
ForPagesIgnoringFetched(led, fetched, p, ep) ==
  IF p > ep THEN led
  ELSE ForPagesIgnoringFetched(FetchPageCall(led, {}, p), fetched, p + 1, ep)

\* for (let p = sp; p <= ep; p++) fetchPage(p)
RECURSIVE ForPages(_, _, _, _)
ForPages(led, fetched, p, ep) ==
  IF p > ep THEN led
  ELSE ForPages(FetchPageCall(led, fetched, p), fetched, p + 1, ep)

\* Math.ceil(total / PAGE_SIZE) - 1
LastPage(t) == (t + PAGE_SIZE - 1) \div PAGE_SIZE - 1
\* Math.max(0, Math.floor(fi / PAGE_SIZE) - 1)
StartPage(fi) == Max(0, fi \div PAGE_SIZE - 1)
\* the last page called for, not held to the pages of the table
EndPageUnclamped(li, t) == li \div PAGE_SIZE + 2

\* the last page called for, one page past the viewport
EndPageOnePageAhead(li, t) == Min(li \div PAGE_SIZE + 1, LastPage(t))

\* Math.min(Math.floor(li / PAGE_SIZE) + 2, max)
EndPage(li, t) == Min(li \div PAGE_SIZE + 2, LastPage(t))

\* the loop keeping only the rows of the page just fetched
RECURSIVE StoreRowsEvicting(_, _, _, _)
StoreRowsEvicting(st, rows, offset, i) ==
  IF i > Len(rows) THEN st
  ELSE LET idx == offset + (i - 1)
           row == WithDemoError(rows[i])
           kept == IF i = 1 THEN [rowsMap |-> Empty, idToIdx |-> Empty] ELSE st
       IN  StoreRowsEvicting([rowsMap |-> (idx :> row) @@ kept.rowsMap,
                              idToIdx |-> (row.id :> idx) @@ kept.idToIdx],
                             rows, offset, i + 1)

\* the loop placing the rows of every page from position 0
RECURSIVE StoreRowsFromZero(_, _, _, _)
StoreRowsFromZero(st, rows, offset, i) ==
  IF i > Len(rows) THEN st
  ELSE LET idx == i - 1
           row == WithDemoError(rows[i])
       IN  StoreRowsFromZero([rowsMap |-> (idx :> row) @@ st.rowsMap,
                              idToIdx |-> (row.id :> idx) @@ st.idToIdx],
                             rows, offset, i + 1)

\* the loop of fetchPage over the rows of a response, st = [rowsMap, idToIdx]
RECURSIVE StoreRows(_, _, _, _)
StoreRows(st, rows, offset, i) ==
  IF i > Len(rows) THEN st
  ELSE LET idx == offset + (i - 1)
           row == WithDemoError(rows[i])
       IN  StoreRows([rowsMap |-> (idx :> row) @@ st.rowsMap,
                      idToIdx |-> (row.id :> idx) @@ st.idToIdx],
                     rows, offset, i + 1)

\* json.data ?? [] and json.total ?? 0
JsonData(json) == IF "data" \in DOMAIN json THEN json.data ELSE <<>>
JsonTotal(json) == IF "total" \in DOMAIN json THEN json.total ELSE 0

MountedInit(slots) ==
  /\ db = SeededDb
  /\ adapter = [p \in Procs |-> FALSE]
  /\ chan = [p \in Procs |-> <<>>]
  /\ sock = [s \in Sessions |-> <<>>]
  /\ uplink = [s \in Sessions |-> <<>>]
  /\ writes = [w \in slots |-> NotSent]
  /\ rowsMap = [s \in Sessions |-> Empty]
  /\ idToIdx = [s \in Sessions |-> Empty]
  /\ fetchedPages = [s \in Sessions |-> {}]
  \* the mount effect has run: fetchPage(0)
  /\ fetchingPages = [s \in Sessions |-> {0}]
  /\ reads = [s \in Sessions |-> <<ReadRequest(0)>>]
  /\ total = [s \in Sessions |-> 0]
  /\ loadedCount = [s \in Sessions |-> 0]
  /\ editingCell = [s \in Sessions |-> NoEdit]

\* the viewport effect giving up the requests still outstanding before it
\* calls fetchPage
ViewportSweepingInFlight(s, fi, li) ==
  /\ total[s] > 0
  /\ 0 <= fi /\ fi <= li /\ li < total[s]
  /\ LET led == ForPages([fetching |-> {}, reads |-> reads[s]],
                         fetchedPages[s], StartPage(fi), EndPage(li, total[s]))
     IN  /\ fetchingPages' = [fetchingPages EXCEPT ![s] = led.fetching]
         /\ reads' = [reads EXCEPT ![s] = led.reads]
  /\ UNCHANGED <<uplink, serverVars, sock, writes, storeVars, fetchedPages, editingCell>>

\* the viewport effect of session s, the virtual rows running from fi to li
Viewport(s, fi, li) ==
  /\ total[s] > 0
  /\ 0 <= fi /\ fi <= li /\ li < total[s]
  /\ LET led == ForPages([fetching |-> fetchingPages[s], reads |-> reads[s]],
                         fetchedPages[s], StartPage(fi), EndPage(li, total[s]))
     IN  /\ fetchingPages' = [fetchingPages EXCEPT ![s] = led.fetching]
         /\ reads' = [reads EXCEPT ![s] = led.reads]
  /\ UNCHANGED <<uplink, serverVars, sock, writes, storeVars, fetchedPages, editingCell>>

\* GET /api/rows handled by a process: both queries, then res.json; the
\* catch answers 500 when a query fails
GetRows(s, i, dbFails) ==
  /\ i \in DOMAIN reads[s]
  /\ reads[s][i].st = "sent"
  /\ LET r == reads[s][i]
         res == IF dbFails
                  THEN [status |-> 500, json |-> DbErrorJson]
                  ELSE [status |-> 200, json |-> RowsJson(db, r.limit, r.offset)]
     IN  reads' = [reads EXCEPT ![s][i] = [r EXCEPT !.st = "answered", !.res = res]]
  /\ UNCHANGED <<uplink, serverVars, sock, writes, storeVars, ledgerVars, editingCell>>

\* fetchPage counting the fetched pages as the loaded rows
FetchPageDoneCountingPages(s, i) ==
  /\ i \in DOMAIN reads[s]
  /\ reads[s][i].st = "answered"
  /\ LET r == reads[s][i]
         json == r.res.json
         offset == r.page * PAGE_SIZE
         st == StoreRows([rowsMap |-> rowsMap[s], idToIdx |-> idToIdx[s]],
                         JsonData(json), offset, 1)
     IN  /\ rowsMap' = [rowsMap EXCEPT ![s] = st.rowsMap]
         /\ idToIdx' = [idToIdx EXCEPT ![s] = st.idToIdx]
         /\ fetchedPages' = [fetchedPages EXCEPT ![s] = @ \cup {r.page}]
         /\ fetchingPages' = [fetchingPages EXCEPT ![s] = @ \ {r.page}]
         /\ total' = [total EXCEPT ![s] = JsonTotal(json)]
         /\ loadedCount' = [loadedCount EXCEPT ![s] =
                              Cardinality(fetchedPages[s] \cup {r.page})]
         /\ reads' = [reads EXCEPT ![s] = RemoveAt(@, i)]
  /\ UNCHANGED <<uplink, serverVars, sock, writes, editingCell>>

\* fetchPage taking the rows of the answer as the loaded rows
FetchPageDoneCountingBatch(s, i) ==
  /\ i \in DOMAIN reads[s]
  /\ reads[s][i].st = "answered"
  /\ LET r == reads[s][i]
         json == r.res.json
         offset == r.page * PAGE_SIZE
         st == StoreRows([rowsMap |-> rowsMap[s], idToIdx |-> idToIdx[s]],
                         JsonData(json), offset, 1)
     IN  /\ rowsMap' = [rowsMap EXCEPT ![s] = st.rowsMap]
         /\ idToIdx' = [idToIdx EXCEPT ![s] = st.idToIdx]
         /\ fetchedPages' = [fetchedPages EXCEPT ![s] = @ \cup {r.page}]
         /\ fetchingPages' = [fetchingPages EXCEPT ![s] = @ \ {r.page}]
         /\ total' = [total EXCEPT ![s] = JsonTotal(json)]
         /\ loadedCount' = [loadedCount EXCEPT ![s] = Len(JsonData(json))]
         /\ reads' = [reads EXCEPT ![s] = RemoveAt(@, i)]
  /\ UNCHANGED <<uplink, serverVars, sock, writes, editingCell>>

\* fetchPage after its awaits: the response has arrived and parsed
FetchPageDone(s, i) ==
  /\ i \in DOMAIN reads[s]
  /\ reads[s][i].st = "answered"
  /\ LET r == reads[s][i]
         json == r.res.json
         offset == r.page * PAGE_SIZE
         st == StoreRows([rowsMap |-> rowsMap[s], idToIdx |-> idToIdx[s]],
                         JsonData(json), offset, 1)
     IN  /\ rowsMap' = [rowsMap EXCEPT ![s] = st.rowsMap]
         /\ idToIdx' = [idToIdx EXCEPT ![s] = st.idToIdx]
         /\ fetchedPages' = [fetchedPages EXCEPT ![s] = @ \cup {r.page}]
         /\ fetchingPages' = [fetchingPages EXCEPT ![s] = @ \ {r.page}]
         /\ total' = [total EXCEPT ![s] = JsonTotal(json)]
         /\ loadedCount' = [loadedCount EXCEPT ![s] = Cardinality(DOMAIN st.rowsMap)]
         /\ reads' = [reads EXCEPT ![s] = RemoveAt(@, i)]
  /\ UNCHANGED <<uplink, serverVars, sock, writes, editingCell>>

\* fetchPage's catch: fetch() or res.json() threw (the network failed)
FetchPageCatch(s, i) ==
  /\ i \in DOMAIN reads[s]
  /\ fetchingPages' = [fetchingPages EXCEPT ![s] = @ \ {reads[s][i].page}]
  /\ reads' = [reads EXCEPT ![s] = RemoveAt(@, i)]
  /\ UNCHANGED <<uplink, serverVars, sock, writes, storeVars, fetchedPages, editingCell>>

(***************************************************************************)
(* The viewer session: the 'cell-updated' handler and updateCell.          *)
(***************************************************************************)
\* rowsMapRef.current.set(idx, row)
MapSet(m, k, v) == (k :> v) @@ m

\* the handler with the spread reversed, { ...updatedRow, ...cur }: the fields
\* the session already holds win over the relayed ones
OnCellUpdatedLocalFirst(st, updatedRow) ==
  IF updatedRow.id \in DOMAIN st.idToIdx
    THEN LET idx == st.idToIdx[updatedRow.id]
             cur == IF idx \in DOMAIN st.rowsMap THEN st.rowsMap[idx] ELSE Empty
         IN  MapSet(st.rowsMap, idx,
                    [f \in DOMAIN cur \cup DOMAIN updatedRow |->
                       IF f \in DOMAIN cur THEN cur[f] ELSE updatedRow[f]])
    ELSE st.rowsMap

\* the handler adding a row of unknown identity after the last filled position
OnCellUpdatedAppendUnknown(st, updatedRow) ==
  IF updatedRow.id \in DOMAIN st.idToIdx
    THEN MapSet(st.rowsMap, st.idToIdx[updatedRow.id], updatedRow)
    ELSE MapSet(st.rowsMap, Cardinality(DOMAIN st.rowsMap), updatedRow)

\* the handler filing a row of unknown identity at the position its id suggests
OnCellUpdatedPlaceById(st, updatedRow) ==
  IF updatedRow.id \in DOMAIN st.idToIdx
    THEN MapSet(st.rowsMap, st.idToIdx[updatedRow.id], updatedRow)
    ELSE MapSet(st.rowsMap, updatedRow.id - 1, updatedRow)

\* socket.on('cell-updated', ...) on the store st = [rowsMap, idToIdx]
OnCellUpdated(st, updatedRow) ==
  IF updatedRow.id \in DOMAIN st.idToIdx
    THEN MapSet(st.rowsMap, st.idToIdx[updatedRow.id], updatedRow)
    ELSE st.rowsMap

\* { ...cur, [field]: value }
WithField(cur, field, value) ==
  [f \in DOMAIN cur \cup {field} |-> IF f = field THEN value ELSE cur[f]]

\* updateCell leaving the store to the server's answer
OptimisticPatchDeferred(st, rowId, field, value) == st.rowsMap

\* the synchronous part of updateCell(rowId, field, value) on the store
OptimisticPatch(st, rowId, field, value) ==
  IF rowId \in DOMAIN st.idToIdx
    THEN LET idx == st.idToIdx[rowId]
         IN  IF idx \in DOMAIN st.rowsMap
               THEN MapSet(st.rowsMap, idx, WithField(st.rowsMap[idx], field, value))
               ELSE st.rowsMap
    ELSE st.rowsMap

\* fetch(`/api/rows/${rowId}`, { method: 'PATCH', body: { [field]: value } });
\* src is the session that sent it, 0 for any other HTTP client
\* emits counts the io.emit calls made for the request, reached holds the
\* processes whose sockets the emit reaches
NoRow == [id |-> -1]
WriteRequest(src, rowId, body) ==
  [src |-> src, id |-> rowId, body |-> body, phase |-> "sent", proc |-> 0,
   row |-> NoRow, emits |-> 0, reached |-> {}, res |-> NoRes]

\* the next request is the first one not sent yet
CanSend(w) ==
  /\ w \in DOMAIN writes
  /\ writes[w] = NotSent
  /\ \A v \in DOMAIN writes : v < w => writes[v] # NotSent

\* the 'cell-updated' event arrives at session s
CellUpdated(s) ==
  /\ sock[s] # <<>>
  /\ rowsMap' = [rowsMap EXCEPT ![s] =
                   OnCellUpdated([rowsMap |-> rowsMap[s], idToIdx |-> idToIdx[s]],
                                 Head(sock[s]))]
  /\ sock' = [sock EXCEPT ![s] = Tail(@)]
  /\ UNCHANGED <<uplink, serverVars, reads, writes, idToIdx, total, loadedCount,
                 ledgerVars, editingCell>>

\* a click on the text cell (idx, field) of a rendered, loaded row
StartEdit(s, idx, field) ==
  /\ s \in Editors
  /\ \E w \in DOMAIN writes : CanSend(w)
  /\ editingCell[s] = NoEdit
  /\ idx \in DOMAIN rowsMap[s] /\ idx < total[s]
  /\ editingCell' = [editingCell EXCEPT ![s] =
                       [rowId |-> rowsMap[s][idx].id, field |-> field]]
  /\ UNCHANGED <<uplink, serverVars, sock, reads, writes, storeVars, ledgerVars>>

\* Escape leaving the text "b" of the editor in the store
CancelEditKeepingDraft(s) ==
  /\ editingCell[s] # NoEdit
  /\ rowsMap' = [rowsMap EXCEPT ![s] =
                   OptimisticPatch([rowsMap |-> rowsMap[s], idToIdx |-> idToIdx[s]],
                                   editingCell[s].rowId, editingCell[s].field, "b")]
  /\ editingCell' = [editingCell EXCEPT ![s] = NoEdit]
  /\ UNCHANGED <<uplink, serverVars, sock, reads, writes, idToIdx, total, loadedCount, ledgerVars>>

\* Escape in the input
CancelEdit(s) ==
  /\ editingCell[s] # NoEdit
  /\ editingCell' = [editingCell EXCEPT ![s] = NoEdit]
  /\ UNCHANGED <<uplink, serverVars, sock, reads, writes, storeVars, ledgerVars>>

\* updateCell holding a commit back until every earlier PATCH has settled
UpdateCellAwaitingEarlier(s, w, value) ==
  /\ CanSend(w)
  /\ \A v \in DOMAIN writes : v < w => writes[v] = Settled
  /\ editingCell[s] # NoEdit
  /\ LET e == editingCell[s]
     IN  /\ rowsMap' = [rowsMap EXCEPT ![s] =
                          OptimisticPatch([rowsMap |-> rowsMap[s], idToIdx |-> idToIdx[s]],
                                          e.rowId, e.field, value)]
         /\ writes' = [writes EXCEPT ![w] = WriteRequest(s, e.rowId, (e.field :> value))]
  /\ editingCell' = [editingCell EXCEPT ![s] = NoEdit]
  /\ UNCHANGED <<uplink, serverVars, sock, reads, idToIdx, total, loadedCount, ledgerVars>>

\* blur or Enter in the input: updateCell(row.id, field, value) up to its await
UpdateCell(s, w, value) ==
  /\ CanSend(w)
  /\ editingCell[s] # NoEdit
  /\ LET e == editingCell[s]
     IN  /\ rowsMap' = [rowsMap EXCEPT ![s] =
                          OptimisticPatch([rowsMap |-> rowsMap[s], idToIdx |-> idToIdx[s]],
                                          e.rowId, e.field, value)]
         /\ writes' = [writes EXCEPT ![w] = WriteRequest(s, e.rowId, (e.field :> value))]
  /\ editingCell' = [editingCell EXCEPT ![s] = NoEdit]
  /\ UNCHANGED <<uplink, serverVars, sock, reads, idToIdx, total, loadedCount, ledgerVars>>

\* updateCell storing the row of a 200 answer
WriteResolveStoringAnswer(w) ==
  /\ writes[w].phase = "responded"
  /\ writes' = [writes EXCEPT ![w] = Settled]
  /\ LET r == writes[w]
     IN  rowsMap' =
           IF r.res.status = 200 /\ r.src \in Sessions
             THEN [rowsMap EXCEPT ![r.src] =
                     OnCellUpdated([rowsMap |-> rowsMap[r.src], idToIdx |-> idToIdx[r.src]],
                                   r.res.json)]
             ELSE rowsMap
  /\ UNCHANGED <<uplink, serverVars, sock, reads, idToIdx, total, loadedCount, ledgerVars,
                 editingCell>>

\* updateCell after its await: the PATCH has been answered (whatever the status)
WriteResolve(w) ==
  /\ writes[w].phase = "responded"
  /\ writes' = [writes EXCEPT ![w] = Settled]
  /\ UNCHANGED <<uplink, serverVars, sock, reads, storeVars, ledgerVars, editingCell>>

\* updateCell's catch: fetch() threw, the request never reached a process
WriteCatch(w) ==
  /\ writes[w].phase = "sent"
  /\ writes' = [writes EXCEPT ![w] = Settled]
  /\ UNCHANGED <<uplink, serverVars, sock, reads, storeVars, ledgerVars, editingCell>>

(***************************************************************************)
(* The BFF: PATCH /api/rows/:id and the broadcast relay.                   *)
(***************************************************************************)
\* f.toLowerCase().replace(/\s+/g, '_') on the field names the model sends
NormalizeField(f) ==
  CASE f = "Tasks Name" -> "tasks_name"
    [] f = "COMPOSE"    -> "compose"
    [] OTHER            -> f

SetColumns(body) == {NormalizeField(f) : f \in DOMAIN body}

\* UPDATE creative_tasks SET <cols> WHERE id = <id>: what Postgres rejects
\* (an unknown column, a column assigned twice, a duplicate key)
UpdateRejected(d, id, body) ==
  \/ ~(SetColumns(body) \subseteq DbColumns)
  \/ Cardinality(SetColumns(body)) < Cardinality(DOMAIN body)
  \/ /\ id \in IdsOf(d)
     /\ \E f \in DOMAIN body :
          /\ NormalizeField(f) = "id"
          /\ body[f] # id
          /\ body[f] \in IdsOf(d)

\* the row after SET
UpdatedRow(old, body) ==
  [c \in DOMAIN old |->
     IF c \in SetColumns(body)
       THEN body[CHOOSE f \in DOMAIN body : NormalizeField(f) = c]
       ELSE old[c]]

\* the UPDATE without its WHERE clause: every row is set
UpdateDbEveryRow(d, id, body) ==
  IF id \in IdsOf(d) THEN {UpdatedRow(r, body) : r \in d} ELSE d

\* the table after the UPDATE
UpdateDb(d, id, body) ==
  IF id \in IdsOf(d)
    THEN (d \ {RowById(d, id)}) \cup {UpdatedRow(RowById(d, id), body)}
    ELSE d

\* RETURNING only the columns that were set, with the id
ReturningSetColumns(d, id, body) ==
  IF id \in IdsOf(d)
    THEN <<[c \in {"id"} \cup SetColumns(body) |-> UpdatedRow(RowById(d, id), body)[c]]>>
    ELSE <<>>

\* ... RETURNING *
Returning(d, id, body) ==
  IF id \in IdsOf(d) THEN <<UpdatedRow(RowById(d, id), body)>> ELSE <<>>

\* any HTTP client sends PATCH /api/rows/:id with a body
\* (no field at all; a new identity below every seeded one)
RawRequests ==
  {[id |-> 1, body |-> Empty]}
    \cup {[id |-> i, body |-> [id |-> 0]] : i \in 1..(NumRows + 1)}

RawPatch(w, req) ==
  /\ CanSend(w)
  /\ writes' = [writes EXCEPT ![w] = WriteRequest(0, req.id, req.body)]
  /\ UNCHANGED <<uplink, serverVars, sock, reads, storeVars, ledgerVars, editingCell>>

\* the handler without the check of result.rows.length
PatchQueryNoRowCheck(p, w, dbFails) ==
  /\ writes[w].phase = "sent"
  /\ LET r == writes[w]
     IN  IF DOMAIN r.body = {}
           THEN /\ writes' = [writes EXCEPT ![w] = [r EXCEPT !.phase = "responded",
                     !.proc = p,
                     !.res = [status |-> 400, json |-> [error |-> "No fields to update"]]]]
                /\ db' = db
         ELSE IF dbFails \/ UpdateRejected(db, r.id, r.body)
           THEN /\ writes' = [writes EXCEPT ![w] = [r EXCEPT !.phase = "responded",
                     !.proc = p,
                     !.res = [status |-> 500, json |-> DbErrorJson]]]
                /\ db' = db
         ELSE /\ writes' = [writes EXCEPT ![w] = [r EXCEPT !.phase = "committed",
                     !.proc = p,
                     !.row = IF Returning(db, r.id, r.body) = <<>>
                               THEN NoRow ELSE Returning(db, r.id, r.body)[1]]]
              /\ db' = UpdateDb(db, r.id, r.body)
  /\ UNCHANGED <<uplink, adapter, chan, sock, reads, storeVars, ledgerVars, editingCell>>

\* the PATCH handler of process p up to the end of its await pool.query
PatchQuery(p, w, dbFails) ==
  /\ writes[w].phase = "sent"
  /\ LET r == writes[w]
     IN  IF DOMAIN r.body = {}
           THEN /\ writes' = [writes EXCEPT ![w] = [r EXCEPT !.phase = "responded",
                     !.proc = p,
                     !.res = [status |-> 400, json |-> [error |-> "No fields to update"]]]]
                /\ db' = db
         ELSE IF dbFails \/ UpdateRejected(db, r.id, r.body)
           THEN /\ writes' = [writes EXCEPT ![w] = [r EXCEPT !.phase = "responded",
                     !.proc = p,
                     !.res = [status |-> 500, json |-> DbErrorJson]]]
                /\ db' = db
         ELSE IF Returning(db, r.id, r.body) = <<>>
           THEN /\ writes' = [writes EXCEPT ![w] = [r EXCEPT !.phase = "responded",
                     !.proc = p,
                     !.res = [status |-> 404, json |-> [error |-> "Row not found"]]]]
                /\ db' = db
         ELSE /\ writes' = [writes EXCEPT ![w] = [r EXCEPT !.phase = "committed",
                     !.proc = p, !.row = Returning(db, r.id, r.body)[1]]]
              /\ db' = UpdateDb(db, r.id, r.body)
  /\ UNCHANGED <<uplink, adapter, chan, sock, reads, storeVars, ledgerVars, editingCell>>

\* the emit leaving local delivery to the adapter once it is attached
EmitLocalUnlessAdapter(sk, p, row) ==
  [s \in Sessions |-> IF ProcOf(s) = p /\ ~adapter[p] THEN Append(sk[s], row) ELSE sk[s]]

\* io.emit on process p: its own sockets, and through the adapter the
\* processes that have attached theirs
EmitLocal(sk, p, row) ==
  [s \in Sessions |-> IF ProcOf(s) = p THEN Append(sk[s], row) ELSE sk[s]]

\* the processes subscribed to what process p publishes
Subscribers(p) == {q \in Procs : adapter[p] /\ q # p /\ adapter[q]}

EmitRemote(ch, p, row) ==
  [q \in Procs |-> IF q \in Subscribers(p) THEN Append(ch[q], row) ELSE ch[q]]

\* the handler failing the request when the process has no Redis adapter
PatchEmitRequiringAdapter(w) ==
  /\ writes[w].phase = "committed"
  /\ LET r == writes[w]
     IN  IF adapter[r.proc]
           THEN /\ sock' = EmitLocal(sock, r.proc, r.row)
                /\ chan' = EmitRemote(chan, r.proc, r.row)
                /\ writes' = [writes EXCEPT ![w] = [r EXCEPT !.phase = "responded",
                                 !.emits = @ + 1,
                                 !.reached = {r.proc} \cup Subscribers(r.proc),
                                 !.res = [status |-> 200, json |-> r.row]]]
           ELSE /\ sock' = sock
                /\ chan' = chan
                /\ writes' = [writes EXCEPT ![w] = [r EXCEPT !.phase = "responded",
                                 !.res = [status |-> 500, json |-> DbErrorJson]]]
  /\ UNCHANGED <<uplink, db, adapter, reads, storeVars, ledgerVars, editingCell>>

\* the rest of the PATCH handler: io.emit('cell-updated', updatedRow); res.json(updatedRow)
PatchEmit(w) ==
  /\ writes[w].phase = "committed"
  /\ LET r == writes[w]
     IN  /\ sock' = EmitLocal(sock, r.proc, r.row)
         /\ chan' = EmitRemote(chan, r.proc, r.row)
         /\ writes' = [writes EXCEPT ![w] = [r EXCEPT !.phase = "responded",
                          !.emits = @ + 1,
                          !.reached = {r.proc} \cup Subscribers(r.proc),
                          !.res = [status |-> 200, json |-> r.row]]]
  /\ UNCHANGED <<uplink, db, adapter, reads, storeVars, ledgerVars, editingCell>>

\* process q relays a row it received on the Redis channel to its sockets
RelayDeliver(q) ==
  /\ chan[q] # <<>>
  /\ sock' = EmitLocal(sock, q, Head(chan[q]))
  /\ chan' = [chan EXCEPT ![q] = Tail(@)]
  /\ UNCHANGED <<uplink, db, adapter, reads, writes, storeVars, ledgerVars, editingCell>>

\* pubClient.on('ready'): io.adapter(createAdapter(pubClient, subClient))
RedisReady(p) ==
  /\ ~adapter[p]
  /\ adapter' = [adapter EXCEPT ![p] = TRUE]
  /\ UNCHANGED <<uplink, db, chan, sock, reads, writes, storeVars, ledgerVars, editingCell>>

(***************************************************************************)
(* Events a client emits on its socket.  The grid of Table.tsx emits       *)
(* 'cell-update' with the row it has just edited; the process registers    *)
(* only a 'disconnect' listener on a connection.                           *)
(***************************************************************************)
\* rows only a client has made: no PATCH of the model writes the text "c"
ClientRows == {[id |-> i, tasks_name |-> "c", compose |-> "a"] : i \in 1..NumRows}

\* socket.emit('cell-update', updatedRow)
EmitCellUpdate(s, row) ==
  /\ uplink[s] = <<>>
  /\ uplink' = [uplink EXCEPT ![s] = Append(@, row)]
  /\ UNCHANGED <<serverVars, sock, reads, writes, storeVars, ledgerVars, editingCell>>

\* a process passing the client's event on to the other sockets it holds
\* and to the channel
OnClientEventRelaying(s) ==
  /\ uplink[s] # <<>>
  /\ uplink' = [uplink EXCEPT ![s] = Tail(@)]
  /\ sock' = [u \in Sessions |->
                IF u # s /\ ProcOf(u) = ProcOf(s) THEN Append(sock[u], Head(uplink[s]))
                ELSE sock[u]]
  /\ chan' = EmitRemote(chan, ProcOf(s), Head(uplink[s]))
  /\ UNCHANGED <<db, adapter, reads, writes, storeVars, ledgerVars, editingCell>>

\* the event reaches the process holding the socket of s: io.on('connection')
\* has registered no listener for it, the event is dropped
OnClientEvent(s) ==
  /\ uplink[s] # <<>>
  /\ uplink' = [uplink EXCEPT ![s] = Tail(@)]
  /\ UNCHANGED <<serverVars, sock, reads, writes, storeVars, ledgerVars, editingCell>>

UplinkNext ==
  \/ \E s \in Sessions, row \in ClientRows : EmitCellUpdate(s, row)
  \/ \E s \in Sessions : OnClientEvent(s)

FetchNext ==
  \/ \E s \in Sessions : \E fi \in 0..(total[s] - 1), li \in 0..(total[s] - 1) :
       Viewport(s, fi, li)
  \/ \E s \in Sessions : \E i \in DOMAIN reads[s], f \in BOOLEAN : GetRows(s, i, f)
  \/ \E s \in Sessions : \E i \in DOMAIN reads[s] : FetchPageDone(s, i)
  \/ \E s \in Sessions : \E i \in DOMAIN reads[s] : FetchPageCatch(s, i)

EditNext ==
  \/ \E s \in Sessions : \E idx \in DOMAIN rowsMap[s], f \in Fields : StartEdit(s, idx, f)
  \/ \E s \in Sessions : CancelEdit(s)
  \/ \E s \in Sessions, w \in DOMAIN writes, v \in Values : UpdateCell(s, w, v)
  \/ \E w \in DOMAIN writes : WriteResolve(w)
  \/ \E w \in DOMAIN writes : WriteCatch(w)
  \/ \E w \in DOMAIN writes, req \in RawRequests : RawPatch(w, req)

RelayNext ==
  \/ \E p \in Procs, w \in DOMAIN writes, f \in BOOLEAN : PatchQuery(p, w, f)
  \/ \E w \in DOMAIN writes : PatchEmit(w)
  \/ \E q \in Procs : RelayDeliver(q)
  \/ \E p \in Procs : RedisReady(p)
  \/ \E s \in Sessions : CellUpdated(s)

(***************************************************************************)
(* The program from the mount of its sessions.                             *)
(***************************************************************************)
Init == MountedInit(1..MaxWrites)
Next == FetchNext \/ EditNext \/ RelayNext
Spec == Init /\ [][Next]_vars

(***************************************************************************)
(* Concurrent writes over sessions that have loaded the whole table.       *)
(***************************************************************************)
LoadedStore ==
  StoreRows([rowsMap |-> Empty, idToIdx |-> Empty],
            SelectRows(SeededDb, NumRows, 0), 0, 1)

LoadedInit(slots) ==
  /\ db = SeededDb
  /\ adapter = [p \in Procs |-> FALSE]
  /\ chan = [p \in Procs |-> <<>>]
  /\ sock = [s \in Sessions |-> <<>>]
  /\ uplink = [s \in Sessions |-> <<>>]
  /\ writes = [w \in slots |-> NotSent]
  /\ rowsMap = [s \in Sessions |-> LoadedStore.rowsMap]
  /\ idToIdx = [s \in Sessions |-> LoadedStore.idToIdx]
  /\ fetchedPages = [s \in Sessions |-> 0..LastPage(NumRows)]
  /\ fetchingPages = [s \in Sessions |-> {}]
  /\ reads = [s \in Sessions |-> <<>>]
  /\ total = [s \in Sessions |-> NumRows]
  /\ loadedCount = [s \in Sessions |-> NumRows]
  /\ editingCell = [s \in Sessions |-> NoEdit]

InitRace == LoadedInit(1..RaceWrites)
NextRace == EditNext \/ RelayNext
SpecRace == InitRace /\ [][NextRace]_vars

(***************************************************************************)
(* Loaded sessions that edit, with clients that also emit events of their  *)
(* own on their sockets.                                                   *)
(***************************************************************************)
InitEmit == LoadedInit(1..MaxWrites)
NextEmit == EditNext \/ RelayNext \/ UplinkNext
SpecEmit == InitEmit /\ [][NextEmit]_vars

(***************************************************************************)
(* One session, the first, scrolling over a table of several pages that    *)
(* nobody writes; no other session is open.                                *)
(***************************************************************************)
InitScroll ==
  /\ db = {SeedRow(i) : i \in 1..ScrollRows}
  /\ adapter = [p \in Procs |-> FALSE]
  /\ chan = [p \in Procs |-> <<>>]
  /\ sock = [s \in Sessions |-> <<>>]
  /\ uplink = [s \in Sessions |-> <<>>]
  /\ writes = Empty
  /\ rowsMap = [s \in Sessions |-> Empty]
  /\ idToIdx = [s \in Sessions |-> Empty]
  /\ fetchedPages = [s \in Sessions |-> {}]
  /\ fetchingPages = [s \in Sessions |-> IF s = 1 THEN {0} ELSE {}]
  /\ reads = [s \in Sessions |-> IF s = 1 THEN <<ReadRequest(0)>> ELSE <<>>]
  /\ total = [s \in Sessions |-> 0]
  /\ loadedCount = [s \in Sessions |-> 0]
  /\ editingCell = [s \in Sessions |-> NoEdit]

NextScroll == FetchNext
SpecScroll == InitScroll /\ [][NextScroll]_vars

\* The scrolling session under a network and a service that work again and
\* again: a request that is sent over and over is answered by the service
\* without a database error at some point, an answer that keeps arriving is
\* taken by the continuation of fetchPage at some point, and the viewport
\* effect runs whenever React has it pending.
FairScroll ==
  \A s \in Sessions :
    /\ SF_vars(\E i \in DOMAIN reads[s] : GetRows(s, i, FALSE))
    /\ SF_vars(\E i \in DOMAIN reads[s] : FetchPageDone(s, i))
    /\ WF_vars(\E fi \in 0..(ScrollRows - 1), li \in 0..(ScrollRows - 1) : Viewport(s, fi, li))
SpecScrollFair == SpecScroll /\ FairScroll

(***************************************************************************)
(* GET /api/rows asked by any HTTP client with query strings of its own,   *)
(* over tables of several sizes.  The request is kept in reads[1].         *)
(***************************************************************************)
QueryStrings == {"", "abc", "0", "-1", "1", "2", "2x", ToString(MaxLimit + 1)}
Tables == {{SeedRow(i) : i \in 1..n} : n \in {0, 1, NumRows}}

InitRead ==
  /\ db \in Tables
  /\ adapter = [p \in Procs |-> FALSE]
  /\ chan = [p \in Procs |-> <<>>]
  /\ sock = [s \in Sessions |-> <<>>]
  /\ uplink = [s \in Sessions |-> <<>>]
  /\ writes = Empty
  /\ rowsMap = [s \in Sessions |-> Empty]
  /\ idToIdx = [s \in Sessions |-> Empty]
  /\ fetchedPages = [s \in Sessions |-> {}]
  /\ fetchingPages = [s \in Sessions |-> {}]
  /\ \E l \in QueryStrings, o \in QueryStrings :
       reads = [s \in Sessions |->
                  IF s = 1 THEN <<[page |-> 0, limit |-> l, offset |-> o,
                                   st |-> "sent", res |-> NoRes]>>
                  ELSE <<>>]
  /\ total = [s \in Sessions |-> 0]
  /\ loadedCount = [s \in Sessions |-> 0]
  /\ editingCell = [s \in Sessions |-> NoEdit]

NextRead == \E s \in Sessions : \E i \in DOMAIN reads[s], f \in BOOLEAN : GetRows(s, i, f)
SpecRead == InitRead /\ [][NextRead]_vars

(***************************************************************************)
(* PATCH /api/rows/:id asked by any HTTP client with bodies of its own:    *)
(* one field or two, field names in the spelling of the grid's headers, a  *)
(* column named twice, an unknown column, the id column, an id without row.*)
(***************************************************************************)
WriteBodies ==
  {[tasks_name |-> "b"], [compose |-> "b"], [tasks_name |-> "a"],
   [tasks_name |-> "b", compose |-> "b"],
   ("Tasks Name" :> "b"),
   ("Tasks Name" :> "b") @@ ("tasks_name" :> "a"),
   [no_such_column |-> "b"],
   [id |-> 0]}
WriteRequests == {[id |-> i, body |-> b] : i \in 1..(NumRows + 1), b \in WriteBodies}

InitWrite == LoadedInit(1..RaceWrites)
NextWrite ==
  \/ \E w \in DOMAIN writes, req \in WriteRequests : RawPatch(w, req)
  \/ \E p \in Procs, w \in DOMAIN writes, f \in BOOLEAN : PatchQuery(p, w, f)
  \/ \E w \in DOMAIN writes : PatchEmit(w)
SpecWrite == InitWrite /\ [][NextWrite]_vars

(***************************************************************************)
(* The row store.                                                          *)
(***************************************************************************)
\* C1: in every session, every stored position p holds a row whose id maps
\* back to p in the identity map, and every id of the identity map maps to a
\* position that stores a row with that id.
C1_StoreConsistency ==
  \A s \in Sessions :
    /\ \A p \in DOMAIN rowsMap[s] :
         /\ rowsMap[s][p].id \in DOMAIN idToIdx[s]
         /\ idToIdx[s][rowsMap[s][p].id] = p
    /\ \A i \in DOMAIN idToIdx[s] :
         /\ idToIdx[s][i] \in DOMAIN rowsMap[s]
         /\ rowsMap[s][idToIdx[s][i]].id = i

(***************************************************************************)
(* The page fetch coordinator.                                             *)
(***************************************************************************)
\* the requests of session s for page, issued and not settled
InFlight(s, page) == {i \in DOMAIN reads[s] : reads[s][i].page = page}

\* C2: a session never has more than one read request outstanding for the
\* same page, and a page has an outstanding request exactly when it is
\* marked in flight.
C2_OneInFlight ==
  \A s \in Sessions : \A page \in 0..LastPage(NumRows + 1) :
    /\ Cardinality(InFlight(s, page)) <= 1
    /\ (page \in fetchingPages[s]) <=> (InFlight(s, page) # {})

\* the viewport effect can run (the total is known) while the request for
\* page 1 is outstanding and page 0 is already fetched
C2_Witness ==
  \E s \in Sessions :
    /\ total[s] > 0
    /\ 0 \in fetchedPages[s]
    /\ fetchingPages[s] = {1}
    /\ Cardinality(InFlight(s, 1)) = 1

(***************************************************************************)
(* The optimistic mutation applier and the realtime reconciliation.        *)
(***************************************************************************)
\* C3: when a session whose identity map holds the id of a relayed row
\* handles the 'cell-updated' event, the mapped position holds exactly the
\* relayed row afterwards, whatever the session had stored there (an
\* optimistic value included), and no other position changes.
C3_ServerRowWins ==
  [][\A s \in Sessions :
       (sock[s] # <<>> /\ sock'[s] = Tail(sock[s])
          /\ Head(sock[s]).id \in DOMAIN idToIdx[s])
       => LET row == Head(sock[s])
              idx == idToIdx[s][row.id]
          IN  /\ DOMAIN rowsMap'[s] = DOMAIN rowsMap[s] \cup {idx}
              /\ rowsMap'[s][idx] = row
              /\ \A p \in DOMAIN rowsMap[s] \ {idx} : rowsMap'[s][p] = rowsMap[s][p]]_vars

\* the last PATCH a session made is still in flight and the cell no longer
\* holds the value the session applied for it: a relayed row has replaced it
C3_Witness ==
  \E s \in Sessions :
    LET w == RaceWrites
    IN  /\ writes[w].phase \in {"sent", "committed"}
        /\ writes[w].src = s
        /\ writes[w].id \in DOMAIN idToIdx[s]
        /\ \E f \in DOMAIN writes[w].body :
             rowsMap[s][idToIdx[s][writes[w].id]][f] # writes[w].body[f]

\* C4: when updateCell(id, f, v) runs in a session that maps id, the row at
\* the mapped position has f = v as soon as the request is sent, every other
\* field of the row and every other position are unchanged, and the edit
\* state is cleared.
C4_OptimisticApply ==
  [][\A s \in Sessions : \A w \in DOMAIN writes :
       (writes[w] = NotSent /\ writes'[w].phase = "sent" /\ writes'[w].src = s
          /\ writes'[w].id \in DOMAIN idToIdx[s])
       => LET body == writes'[w].body
              idx == idToIdx[s][writes'[w].id]
              cur == rowsMap[s][idx]
          IN  /\ DOMAIN rowsMap'[s] = DOMAIN rowsMap[s]
              /\ DOMAIN rowsMap'[s][idx] = DOMAIN cur \cup DOMAIN body
              /\ \A f \in DOMAIN body : rowsMap'[s][idx][f] = body[f]
              /\ \A g \in DOMAIN cur \ DOMAIN body : rowsMap'[s][idx][g] = cur[g]
              /\ \A p \in DOMAIN rowsMap[s] \ {idx} : rowsMap'[s][p] = rowsMap[s][p]
              /\ editingCell[s] # NoEdit
              /\ editingCell'[s] = NoEdit]_vars

\* a session shows the value it typed while its PATCH has not reached any
\* process and the table still holds another value
C4_Witness ==
  \E s \in Sessions : \E w \in DOMAIN writes :
    /\ writes[w].phase = "sent"
    /\ writes[w].src = s
    /\ writes[w].id \in DOMAIN idToIdx[s]
    /\ writes[w].id \in IdsOf(db)
    /\ editingCell[s] = NoEdit
    /\ \E f \in DOMAIN writes[w].body :
         /\ rowsMap[s][idToIdx[s][writes[w].id]][f] = writes[w].body[f]
         /\ RowById(db, writes[w].id)[f] # writes[w].body[f]

\* C5: the resolution of a PATCH request (a 200 answer, a rejection, a
\* network error) changes nothing in the session: the store keeps the
\* optimistic value, the ledger and the edit state are untouched, and no
\* request is sent again.
C5_ResolutionNeverTouchesStore ==
  [][\A w \in DOMAIN writes :
       (writes[w].phase \in {"sent", "responded"} /\ writes'[w] = Settled)
       => /\ UNCHANGED <<rowsMap, idToIdx, total, loadedCount, fetchedPages,
                         fetchingPages, reads, editingCell>>
          /\ \A v \in DOMAIN writes \ {w} : writes'[v] = writes[v]]_vars

\* the only PATCH of the behaviour has settled without changing the table
\* (it failed), and the session that sent it still shows the value it typed
C5_Witness ==
  /\ writes[1] = Settled
  /\ db = SeededDb
  /\ \E s \in Editors : \E p \in DOMAIN rowsMap[s] : \E f \in Fields :
       /\ rowsMap[s][p].id \in IdsOf(db)
       /\ rowsMap[s][p][f] # RowById(db, rowsMap[s][p].id)[f]

\* C6: whenever the read for a page fails, by a network error or by an error
\* answer of the service, the page leaves the in-flight set and is not added
\* to the fetched set.
C6_FailedReadReleasesPage ==
  [][\A s \in Sessions : \A i \in DOMAIN reads[s] :
       (reads[s][i].res.status # 200 /\ reads'[s] = RemoveAt(reads[s], i))
       => /\ reads[s][i].page \notin fetchingPages'[s]
          /\ reads[s][i].page \notin fetchedPages'[s]]_vars

(***************************************************************************)
(* The broadcast relay.                                                    *)
(***************************************************************************)
\* the PATCH handler of request w passes its await and commits
Commits(w) == writes[w].phase = "sent" /\ writes'[w].phase = "committed"
\* the PATCH handler of request w emits and answers
Emits(w) == writes[w].phase = "committed" /\ writes'[w].phase = "responded"

Delivered ==
  /\ \A s \in Sessions : sock[s] = <<>>
  /\ \A q \in Procs : chan[q] = <<>>
  /\ \A w \in DOMAIN writes : writes[w].phase \in {"none", "responded"}

\* the write w updated a row, its emission reached every process, and the
\* table still holds the row as w committed it (no write to it came later)
LastWriteTo(w) ==
  /\ writes[w].phase = "responded"
  /\ writes[w].res.status = 200
  /\ writes[w].reached = Procs
  /\ writes[w].row \in db

\* C8: after a write that set field f of row id to v, with the shared channel
\* available and no later write to id, every session that maps id holds v
\* for f at the mapped position once the emissions are delivered.  Stated
\* for the sessions that make no edit of their own.
C8_FanOutDelivery ==
  \A w \in DOMAIN writes : \A s \in Sessions \ Editors :
    (Delivered /\ LastWriteTo(w) /\ writes[w].row.id \in DOMAIN idToIdx[s])
    => \A f \in DOMAIN writes[w].body :
         rowsMap[s][idToIdx[s][writes[w].row.id]][NormalizeField(f)] = writes[w].body[f]

\* C9: once every write has been answered, every emission delivered and
\* every read settled, each session that made no write holds, for each row
\* it has loaded that the table still has, the columns of the table's row.
\* Stated for the behaviours in which every emission reached every process.
C9_Convergence ==
  \A s \in Sessions \ Editors :
    (/\ Delivered
     /\ reads[s] = <<>>
     /\ \A w \in DOMAIN writes :
          (writes[w].phase = "responded" /\ writes[w].res.status = 200)
            => writes[w].reached = Procs)
    => \A p \in DOMAIN rowsMap[s] :
         rowsMap[s][p].id \in IdsOf(db)
           => \A c \in DbColumns : rowsMap[s][p][c] = RowById(db, rowsMap[s][p].id)[c]

\* C10: the emission of a write reaches every session whose socket the
\* handling process holds, the session that issued the write included,
\* whether or not the process has attached the Redis adapter.
C10_SelfDelivery ==
  [][\A w \in DOMAIN writes :
       Emits(w) =>
         \A s \in Sessions :
           ProcOf(s) = writes[w].proc
             => /\ sock'[s] = Append(sock[s], writes[w].row)
                /\ writes[w].proc \in writes'[w].reached]_vars

\* a session issued two writes handled by the process that holds its socket,
\* the first emitted before the adapter was attached and the second after
\* it, and the two rows are on the wire to the session
C10_Witness ==
  \E s \in Editors :
    /\ \A w \in DOMAIN writes :
         /\ writes[w].phase = "responded"
         /\ writes[w].res.status = 200
         /\ writes[w].src = s
         /\ writes[w].proc = ProcOf(s)
    /\ writes[1].reached = {ProcOf(s)}
    /\ writes[2].reached = Procs
    /\ Len(sock[s]) = 2
    /\ sock[s][1] = writes[1].row /\ sock[s][2] = writes[2].row

\* C11: when the handling process has no Redis adapter (the shared channel
\* is unavailable), a PATCH whose update succeeded is still answered 200 with
\* the updated row, the row still goes to every session whose socket the
\* process holds, and nothing reaches the other processes or their sessions.
C11_SoftDependency ==
  [][\A w \in DOMAIN writes :
       (Emits(w) /\ ~adapter[writes[w].proc])
       => /\ writes'[w].res = [status |-> 200, json |-> writes[w].row]
          /\ \A s \in Sessions :
               sock'[s] = IF ProcOf(s) = writes[w].proc
                            THEN Append(sock[s], writes[w].row) ELSE sock[s]
          /\ chan' = chan
          /\ db' = db]_vars

\* a write emitted without the adapter was answered 200; the session on the
\* handling process has handled the row and holds it, the session on the
\* other process has nothing pending and still holds the older value
C11_Witness ==
  \E w \in DOMAIN writes : \E s, u \in Sessions :
    /\ writes[w].phase = "responded"
    /\ writes[w].res.status = 200
    /\ writes[w].reached = {writes[w].proc}
    /\ ProcOf(s) = writes[w].proc /\ ProcOf(u) # writes[w].proc
    /\ sock[s] = <<>> /\ sock[u] = <<>> /\ chan[ProcOf(u)] = <<>>
    /\ writes[w].id \in DOMAIN idToIdx[s] /\ writes[w].id \in DOMAIN idToIdx[u]
    /\ rowsMap[s][idToIdx[s][writes[w].id]] = writes[w].row
    /\ \E f \in DOMAIN writes[w].body :
         rowsMap[u][idToIdx[u][writes[w].id]][f] # writes[w].body[f]

\* C12: a page that has entered the fetched set never leaves it, no read
\* request for it is outstanding, and no step issues a read request for it.
C12_FetchedIsPermanent ==
  /\ [](\A s \in Sessions : \A i \in DOMAIN reads[s] :
          reads[s][i].page \notin fetchedPages[s])
  /\ [][\A s \in Sessions :
          /\ fetchedPages[s] \subseteq fetchedPages'[s]
          /\ \A i \in DOMAIN reads'[s] :
               i > Len(reads[s]) => reads'[s][i].page \notin fetchedPages[s]]_vars

\* a session that has fetched pages 0 and 1 scrolls on with page 2 in flight
C12_Witness ==
  \E s \in Sessions :
    /\ fetchedPages[s] = {0, 1}
    /\ fetchingPages[s] = {2}
    /\ loadedCount[s] = 2 * PAGE_SIZE

\* the 'cell-updated' event at the head of the wire is handled by session s
Handles(s) == sock[s] # <<>> /\ sock'[s] = Tail(sock[s])

\* the rows a session may be sent: those on its wire, relayed or committed
RowsInTransit(s) ==
  {sock[s][i] : i \in DOMAIN sock[s]}
    \cup {chan[ProcOf(s)][i] : i \in DOMAIN chan[ProcOf(s)]}
    \cup {writes[w].row : w \in {v \in DOMAIN writes : writes[v].phase = "committed"}}

\* C13: handling the same 'cell-updated' row twice in a row leaves the Row
\* Store as the first handling left it, and the handler never touches the
\* identity map, the fetch ledger, total or loadedCount.
C13_IdempotentDelivery ==
  /\ [](\A s \in Sessions : \A r \in RowsInTransit(s) :
          LET once == OnCellUpdated([rowsMap |-> rowsMap[s], idToIdx |-> idToIdx[s]], r)
              twice == OnCellUpdated([rowsMap |-> once, idToIdx |-> idToIdx[s]], r)
          IN  twice = once)
  /\ [][\A s \in Sessions :
          Handles(s) =>
            /\ UNCHANGED <<idToIdx, fetchedPages, fetchingPages, total, loadedCount>>
            /\ (/\ Head(sock[s]).id \in DOMAIN idToIdx[s]
                /\ rowsMap[s][idToIdx[s][Head(sock[s]).id]] = Head(sock[s]))
                 => rowsMap' = rowsMap]_vars

\* the same row is on the wire to a session twice in a row, and the session
\* maps its identity and holds another row there
C13_Witness ==
  \E s \in Sessions :
    /\ Len(sock[s]) >= 2
    /\ sock[s][1] = sock[s][2]
    /\ sock[s][1].id \in DOMAIN idToIdx[s]
    /\ rowsMap[s][idToIdx[s][sock[s][1].id]] # sock[s][1]

\* C14: a 'cell-updated' row whose identity the session does not map is
\* dropped: the handler runs (no error), the message leaves the wire, and the
\* Row Store, the identity map, the fetch ledger, total, loadedCount and
\* everything else stay as they were, so nothing is kept for later.
C14_UnknownIdentityDropped ==
  /\ [](\A s \in Sessions : sock[s] # <<>> => ENABLED CellUpdated(s))
  /\ [][\A s \in Sessions :
          (Handles(s) /\ Head(sock[s]).id \notin DOMAIN idToIdx[s])
          => /\ UNCHANGED <<rowsMap, idToIdx, fetchedPages, fetchingPages, total,
                            loadedCount, reads, editingCell, writes, db, chan, adapter>>
             /\ \A u \in Sessions \ {s} : sock'[u] = sock[u]]_vars

\* a session that has loaded rows was sent the row of a write by the process
\* holding its socket, has handled it, and does not map the row's identity
C14_Witness ==
  \E w \in DOMAIN writes : \E s \in Sessions :
    /\ writes[w].phase = "responded"
    /\ writes[w].res.status = 200
    /\ ProcOf(s) = writes[w].proc
    /\ sock[s] = <<>>
    /\ rowsMap[s] # Empty
    /\ writes[w].row.id \notin DOMAIN idToIdx[s]

\* C15 (scenario A, scaled to PAGE_SIZE rows per page and ScrollRows rows in
\* all): a session with an empty store has at most one read request
\* outstanding, the one for page 0, until it resolves; when it resolves with
\* PAGE_SIZE rows and the total, loadedCount is PAGE_SIZE.
C15_ScenarioA ==
  /\ [](\A s \in Sessions :
          (rowsMap[s] = Empty /\ fetchedPages[s] = {})
          => /\ Len(reads[s]) <= 1
             /\ \A i \in DOMAIN reads[s] : reads[s][i].page = 0)
  /\ [][\A s \in Sessions : \A i \in DOMAIN reads[s] :
          (/\ rowsMap[s] = Empty /\ fetchedPages[s] = {}
           /\ reads[s][i].res.status = 200
           /\ Len(reads[s][i].res.json.data) = PAGE_SIZE
           /\ reads'[s] = RemoveAt(reads[s], i)
           /\ fetchedPages'[s] # {})
          => /\ fetchedPages'[s] = {0}
             /\ reads'[s] = <<>>
             /\ loadedCount'[s] = PAGE_SIZE
             /\ total'[s] = reads[s][i].res.json.total]_vars

\* a session whose first fetch has resolved: page 0 is fetched, PAGE_SIZE
\* rows are loaded, the total is known and no request is outstanding
C15_Witness ==
  \E s \in Sessions :
    /\ fetchedPages[s] = {0}
    /\ reads[s] = <<>>
    /\ loadedCount[s] = PAGE_SIZE
    /\ total[s] = ScrollRows

C18_ReadContract ==
  \A s \in Sessions : \A i \in DOMAIN reads[s] :
    (reads[s][i].st = "answered" /\ reads[s][i].res.status = 200)
    => LET q == reads[s][i]
           j == q.res.json
       IN  /\ j.limit \in 1..MaxLimit
           /\ q.limit \in {"", "abc", "0"} => j.limit = DefaultLimit
           /\ q.limit \in {"2", "2x"} => j.limit = 2
           /\ q.limit = "-1" => j.limit = 1
           /\ q.limit = ToString(MaxLimit + 1) => j.limit = MaxLimit
           /\ j.offset >= 0
           /\ q.offset \in {"", "abc", "0", "-1"} => j.offset = 0
           /\ q.offset \in {"2", "2x"} => j.offset = 2
           /\ Len(j.data) <= j.limit
           /\ Len(j.data) = Min(j.limit, Max(0, Cardinality(db) - j.offset))
           /\ \A k \in 1..Len(j.data) :
                /\ j.data[k] \in db
                /\ Cardinality({r \in db : r.id < j.data[k].id}) = j.offset + k - 1
           /\ j.total = Cardinality(db)

\* GET /api/rows?limit=2&offset=1 over the seeded table was answered with the
\* second and third row and the total
C18_Witness ==
  \E s \in Sessions : \E i \in DOMAIN reads[s] :
    /\ reads[s][i].limit = "2" /\ reads[s][i].offset = "1"
    /\ reads[s][i].st = "answered" /\ reads[s][i].res.status = 200
    /\ db = SeededDb
    /\ reads[s][i].res.json.data = <<SeedRow(2), SeedRow(3)>>
    /\ reads[s][i].res.json.total = NumRows

\* C19: no step removes a filled position from a session's Row Store or an
\* id from its identity map.
C19_StoreNeverShrinks ==
  [][\A s \in Sessions :
       /\ DOMAIN rowsMap[s] \subseteq DOMAIN rowsMap'[s]
       /\ DOMAIN idToIdx[s] \subseteq DOMAIN idToIdx'[s]]_vars

\* a session holds every position of the table after its fetches, an edit
\* whose write has settled and the realtime rows sent to it
C19_Witness ==
  \E s \in Editors :
    /\ DOMAIN rowsMap[s] = 0..(NumRows - 1)
    /\ fetchedPages[s] = 0..LastPage(NumRows)
    /\ writes[1] = Settled
    /\ reads[s] = <<>> /\ sock[s] = <<>>
    /\ \E p \in DOMAIN rowsMap[s] : \E f \in Fields : rowsMap[s][p][f] # "a"

\* the pages for which a step of session s issues a read request
Requested(s) == {reads'[s][i].page : i \in (Len(reads[s]) + 1)..Len(reads'[s])}

\* the pages a..b of a table of t rows that session s has neither fetched
\* nor in flight
Missing(s, a, b, t) ==
  {p \in a..b : /\ p >= 0 /\ p <= (t + PAGE_SIZE - 1) \div PAGE_SIZE - 1
                /\ p \notin fetchedPages[s] /\ p \notin fetchingPages[s]}

\* C20 as stated: a viewport pass over the positions fi..li issues one read
\* request for each page of floor(fi/PAGE_SIZE)-1 .. floor(li/PAGE_SIZE)+1,
\* clamped to the existing pages, that is neither fetched nor in flight, and
\* for no other page.
C20_PageSetOneAhead ==
  [][\A s \in Sessions : \A fi, li \in 0..(ScrollRows - 1) :
       Viewport(s, fi, li)
       => LET want == Missing(s, fi \div PAGE_SIZE - 1, li \div PAGE_SIZE + 1, total[s])
          IN  /\ Requested(s) = want
              /\ Len(reads'[s]) = Len(reads[s]) + Cardinality(want)
              /\ fetchingPages'[s] = fetchingPages[s] \cup want]_vars

\* C20 amended: the pass calls for the pages floor(fi/PAGE_SIZE)-1 ..
\* floor(li/PAGE_SIZE)+2, one page before the viewport and two after it,
\* clamped to the existing pages, and issues one read request for each of
\* them that is neither fetched nor in flight, and for no other page.
C20_PageSetTwoAhead ==
  [][\A s \in Sessions : \A fi, li \in 0..(ScrollRows - 1) :
       Viewport(s, fi, li)
       => LET want == Missing(s, fi \div PAGE_SIZE - 1, li \div PAGE_SIZE + 2, total[s])
          IN  /\ Requested(s) = want
              /\ Len(reads'[s]) = Len(reads[s]) + Cardinality(want)
              /\ fetchingPages'[s] = fetchingPages[s] \cup want]_vars

\* a session that has fetched page 0 only has pages 1 and 2 in flight,
\* requested in this order, and no request for page 3
C20_Witness ==
  \E s \in Sessions :
    /\ fetchedPages[s] = {0}
    /\ reads[s] = <<ReadRequest(1), ReadRequest(2)>>
    /\ 3 \notin fetchingPages[s]
    /\ LastPage(total[s]) = 3

(***************************************************************************)
(* The effects of a page fetch.                                            *)
(***************************************************************************)
\* C21: when the read for page p (offset = p * PAGE_SIZE) completes with a
\* 200 answer carrying the rows r_0 .. r_{k-1}, then in that one step each
\* r_i is stored at position offset + i, the identity map sends r_i.id to
\* offset + i, p leaves the in-flight set and enters the fetched set, and
\* the positions outside offset .. offset+k-1 and the other pages of the
\* ledger are unchanged.
C21_FetchSuccessEffects ==
  [][\A s \in Sessions : \A i \in DOMAIN reads[s] :
       (FetchPageDone(s, i) /\ reads[s][i].res.status = 200)
       => LET r == reads[s][i]
              offset == r.page * PAGE_SIZE
              rows == r.res.json.data
              filled == {offset + j : j \in 0..(Len(rows) - 1)}
          IN  /\ offset = ParseInt(r.offset).val
              /\ DOMAIN rowsMap'[s] = DOMAIN rowsMap[s] \cup filled
              /\ \A j \in 0..(Len(rows) - 1) :
                   /\ \A c \in DOMAIN rows[j + 1] :
                        rowsMap'[s][offset + j][c] = rows[j + 1][c]
                   /\ rows[j + 1].id \in DOMAIN idToIdx'[s]
                   /\ idToIdx'[s][rows[j + 1].id] = offset + j
              /\ \A p \in DOMAIN rowsMap[s] \ filled : rowsMap'[s][p] = rowsMap[s][p]
              /\ \A d \in DOMAIN idToIdx[s] \ {rows[j].id : j \in DOMAIN rows} :
                   idToIdx'[s][d] = idToIdx[s][d]
              /\ r.page \in fetchingPages[s] /\ r.page \notin fetchedPages[s]
              /\ fetchingPages'[s] = fetchingPages[s] \ {r.page}
              /\ fetchedPages'[s] = fetchedPages[s] \cup {r.page}]_vars

\* a session has fetched pages 0 and 2 and not page 1: the rows of page 2
\* are at the positions 2 * PAGE_SIZE onwards and the positions of page 1
\* are empty
C21_Witness ==
  \E s \in Sessions :
    /\ fetchedPages[s] = {0, 2}
    /\ DOMAIN rowsMap[s] = (0..(PAGE_SIZE - 1)) \cup ((2 * PAGE_SIZE)..(3 * PAGE_SIZE - 1))
    /\ rowsMap[s][2 * PAGE_SIZE].id = 2 * PAGE_SIZE + 1
    /\ idToIdx[s][2 * PAGE_SIZE + 1] = 2 * PAGE_SIZE

\* C22: a page whose fetch failed is requested again by a later viewport
\* pass, the mount-time fetch of page 0 (made while total is 0) included; so
\* with requests that succeed in the end and viewport passes that keep
\* running, page 0, which covers the viewport of a session that has just
\* mounted, is fetched in the end.
C22_FailedFetchRecovers ==
  \A s \in {1} : <>(0 \in fetchedPages[s])

(***************************************************************************)
(* The order of the realtime rows.                                         *)
(***************************************************************************)
\* the write w has updated the row of identity id
Succeeded(w, id) ==
  /\ writes[w].phase \in {"committed", "responded"}
  /\ writes[w].row # NoRow
  /\ writes[w].id = id /\ writes[w].row.id = id

\* both writes updated the row of identity id, v first and w last: the table
\* holds the row as w committed it
CommittedBefore(v, w, id) ==
  /\ Succeeded(v, id) /\ Succeeded(w, id)
  /\ writes[w].row \in db /\ writes[v].row \notin db

\* C23: of two writes that updated the same identity, the row of the one
\* committed first is handed to every session before the row of the one
\* committed last: on the wire to a session the later row is never ahead of
\* the earlier one.
C23_PerIdentityOrder ==
  \A s \in Sessions : \A v, w \in DOMAIN writes : \A id \in IdsOf(db) :
    CommittedBefore(v, w, id)
    => \A i, j \in DOMAIN sock[s] :
         (sock[s][i] = writes[v].row /\ sock[s][j] = writes[w].row) => i < j

(***************************************************************************)
(* total and loadedCount.                                                  *)
(***************************************************************************)
\* C24: total is 0 until the first successful page fetch completes; a step
\* changes the total of a session only by completing a read that the
\* service answered 200, and sets it to the total of that answer; a failed
\* fetch, an edit, the resolution of a write and a realtime row leave it.
C24_TotalTracksLastFetch ==
  /\ [](\A s \in Sessions : fetchedPages[s] = {} => total[s] = 0)
  /\ [][\A s \in Sessions :
          /\ \A i \in DOMAIN reads[s] :
               (FetchPageDone(s, i) /\ reads[s][i].res.status = 200)
               => total'[s] = reads[s][i].res.json.total
          /\ total'[s] # total[s]
               => \E i \in DOMAIN reads[s] :
                    /\ reads[s][i].res.status = 200
                    /\ reads'[s] = RemoveAt(reads[s], i)
                    /\ total'[s] = reads[s][i].res.json.total]_vars

(***************************************************************************)
(* The backing store's write contract.                                     *)
(***************************************************************************)
\* C25: whatever PATCH requests the service accepts (any identity, any
\* mapping of field names to values), no row of the table is deleted, no
\* row changes its identity, and so every row keeps its position, its
\* 0-based rank by ascending identity.
C25_IdentitiesStable ==
  [][/\ Cardinality(db') = Cardinality(db)
     /\ IdsOf(db') = IdsOf(db)
     /\ \A r \in db : Rank(db', RowById(db', r.id)) = Rank(db, r)]_vars

C27_OneWritePerCommit ==
  /\ [](\A s \in Editors :
          (editingCell[s] # NoEdit /\ \E w \in DOMAIN writes : CanSend(w))
          => ENABLED (\E w \in DOMAIN writes, v \in Values : UpdateCell(s, w, v)))
  /\ [][\A s \in Sessions :
          /\ \A w \in DOMAIN writes : \A v \in Values :
               UpdateCell(s, w, v)
               => /\ writes'[w].phase = "sent"
                  /\ writes'[w].src = s
                  /\ writes'[w].id = editingCell[s].rowId
                  /\ writes'[w].body = (editingCell[s].field :> v)
                  /\ {u \in DOMAIN writes : writes'[u] # writes[u]} = {w}
          /\ \A w \in DOMAIN writes :
               (writes[w] = NotSent /\ writes'[w] # NotSent /\ writes'[w].src = s)
               => /\ editingCell[s] # NoEdit /\ editingCell'[s] = NoEdit
                  /\ writes'[w].id = editingCell[s].rowId
                  /\ DOMAIN writes'[w].body = {editingCell[s].field}]_vars

\* a session has committed two edits of the same cell with different values
\* and neither PATCH has reached a process yet
C27_Witness ==
  \E s \in Editors :
    /\ \A w \in DOMAIN writes : writes[w].phase = "sent" /\ writes[w].src = s
    /\ writes[1].id = writes[2].id
    /\ DOMAIN writes[1].body = DOMAIN writes[2].body
    /\ writes[1].body # writes[2].body

\* C28: cancelling an edit (Escape in the editor) ends the edit and nothing
\* else: the Row Store, the identity map, the fetch ledger, total and
\* loadedCount are unchanged, no PATCH and no read request is sent, and the
\* table and the wires are untouched; the cancel is possible in every
\* editing state.
C28_CancelIsSideEffectFree ==
  /\ [](\A s \in Sessions : editingCell[s] # NoEdit => ENABLED CancelEdit(s))
  /\ [][\A s \in Sessions :
          CancelEdit(s)
          => /\ editingCell'[s] = NoEdit
             /\ UNCHANGED <<rowsMap, idToIdx, fetchedPages, fetchingPages, total,
                            loadedCount, writes, reads, db, sock, chan, adapter>>
             /\ \A u \in Sessions \ {s} : editingCell'[u] = editingCell[u]]_vars

\* a session is editing a cell of a row it has loaded by its first fetch,
\* with a read request outstanding and no PATCH sent yet: Escape can be
\* pressed
C28_Witness ==
  \E s \in Editors :
    /\ editingCell[s] # NoEdit
    /\ editingCell[s].rowId \in DOMAIN idToIdx[s]
    /\ fetchedPages[s] = {0} /\ fetchingPages[s] # {}
    /\ \A w \in DOMAIN writes : writes[w] = NotSent
    /\ ENABLED CancelEdit(s)

(***************************************************************************)
(* The fetch ledger.                                                       *)
(***************************************************************************)
\* C29: no page is in the fetched set and in the in-flight set of a session
\* at once, and a page enters the fetched set only by the completion of a
\* read request for it that succeeded (a 200 answer).
C29_LedgerDisjoint ==
  /\ [](\A s \in Sessions : fetchedPages[s] \cap fetchingPages[s] = {})
  /\ [][\A s \in Sessions : \A page \in fetchedPages'[s] \ fetchedPages[s] :
          \E i \in DOMAIN reads[s] :
            /\ reads[s][i].page = page
            /\ reads[s][i].res.status = 200
            /\ reads'[s] = RemoveAt(reads[s], i)]_vars

\* C30: after every handler (the completion or the failure of a fetch, an
\* optimistic edit, a realtime row) loadedCount of a session is the number
\* of filled positions of its Row Store.
C30_LoadedCountExact ==
  \A s \in Sessions : loadedCount[s] = Cardinality(DOMAIN rowsMap[s])

\* a session that made no edit has loaded the whole table page by page and
\* holds a row it was sent by a 'cell-updated' event; nothing is pending
C30_Witness ==
  \E s \in Sessions \ Editors :
    /\ loadedCount[s] = NumRows
    /\ fetchedPages[s] = 0..LastPage(NumRows)
    /\ reads[s] = <<>> /\ sock[s] = <<>>
    /\ \E w \in DOMAIN writes :
         /\ writes[w].phase = "responded" /\ writes[w].res.status = 200
         /\ writes[w].row # SeedRow(writes[w].id)
         /\ \E p \in DOMAIN rowsMap[s] : rowsMap[s][p] = writes[w].row

\* C31: a page leaves the in-flight set of a session only in the step in
\* which its own request resolves or fails; as long as the request is
\* outstanding the page is in flight, and no step, whatever the viewport,
\* issues another request for a page that is in flight.
C31_HungRequestBlocksPage ==
  /\ [](\A s \in Sessions : \A i \in DOMAIN reads[s] :
          reads[s][i].page \in fetchingPages[s])
  /\ [][\A s \in Sessions :
          /\ \A page \in fetchingPages[s] \ fetchingPages'[s] :
               \E i \in InFlight(s, page) : reads'[s] = RemoveAt(reads[s], i)
          /\ \A page \in fetchingPages[s] :
               (\A i \in InFlight(s, page) : reads'[s] # RemoveAt(reads[s], i))
               => /\ page \in fetchingPages'[s]
                  /\ page \notin Requested(s)
                  /\ Cardinality(InFlight(s, page)') = 1
          /\ \A fi, li \in 0..(ScrollRows - 1) :
               Viewport(s, fi, li)
               => /\ fetchingPages[s] \subseteq fetchingPages'[s]
                  /\ Requested(s) \cap fetchingPages[s] = {}]_vars

\* the request for page 1 has not been answered while every other page has
\* been fetched by later passes: page 1 is still in flight and has the one
\* request
C31_Witness ==
  \E s \in Sessions :
    /\ fetchedPages[s] = {0, 2, 3}
    /\ fetchingPages[s] = {1}
    /\ reads[s] = <<ReadRequest(1)>>

CommitsEdit(s) ==
  \E w \in DOMAIN writes : writes[w] = NotSent /\ writes'[w] # NotSent /\ writes'[w].src = s

\* C33: the completion of a page fetch writes only positions that were
\* empty, so a position is written by at most one fetch completion; the row
\* of a filled position changes only by an optimistic edit or by a realtime
\* row, and a fetch answer that arrives late changes neither.
C33_FetchNeverOverwrites ==
  [][\A s \in Sessions :
       /\ \A i \in DOMAIN reads[s] :
            FetchPageDone(s, i)
            => /\ \A p \in DOMAIN rowsMap[s] : rowsMap'[s][p] = rowsMap[s][p]
               /\ \A k \in 1..Len(JsonData(reads[s][i].res.json)) :
                    (reads[s][i].page * PAGE_SIZE + k - 1) \notin DOMAIN rowsMap[s]
       /\ \A p \in DOMAIN rowsMap[s] :
            rowsMap'[s][p] # rowsMap[s][p] => (Handles(s) \/ CommitsEdit(s))]_vars

\* a session has fetched both pages and shows at a position of page 0 the
\* value of an edit whose PATCH has not reached any process, the table
\* holding another value
C33_Witness ==
  \E s \in Editors : \E w \in DOMAIN writes :
    /\ fetchedPages[s] = 0..LastPage(NumRows)
    /\ DOMAIN rowsMap[s] = 0..(NumRows - 1)
    /\ reads[s] = <<>>
    /\ writes[w].phase = "sent" /\ writes[w].src = s
    /\ idToIdx[s][writes[w].id] < PAGE_SIZE
    /\ \E f \in DOMAIN writes[w].body :
         /\ rowsMap[s][idToIdx[s][writes[w].id]][f] = writes[w].body[f]
         /\ RowById(db, writes[w].id)[f] # writes[w].body[f]

(***************************************************************************)
(* Completeness of the fetched pages and the bounds of the requests.        *)
(***************************************************************************)
\* C34: whenever a page is in the fetched set of a session, every position
\* of that page below the session's total is filled in its Row Store.
C34_FetchedPagesComplete ==
  \A s \in Sessions : \A page \in fetchedPages[s] :
    \A p \in (page * PAGE_SIZE)..(page * PAGE_SIZE + PAGE_SIZE - 1) :
      p < total[s] => p \in DOMAIN rowsMap[s]

\* C35: every read request of a session has limit = PAGE_SIZE and
\* offset = PAGE_SIZE * p for a page p with 0 <= p <= max(0, ceil(total /
\* PAGE_SIZE) - 1), total being the session's total when the request is
\* issued; the page is in the in-flight set from the moment the request
\* exists, and the service reads the two parameters as these numbers.
C35_RequestsWithinDataset ==
  /\ [](\A s \in Sessions : \A i \in DOMAIN reads[s] :
          LET r == reads[s][i]
          IN  /\ r.limit = ToString(PAGE_SIZE)
              /\ r.offset = ToString(PAGE_SIZE * r.page)
              /\ r.page >= 0
              /\ r.page \in fetchingPages[s]
              /\ fetchedPages[s] = {} => r.page = 0
              /\ r.res.status = 200
                   => /\ r.res.json.limit = PAGE_SIZE
                      /\ r.res.json.offset = PAGE_SIZE * r.page)
  /\ [][\A s \in Sessions : \A page \in Requested(s) :
          /\ 0 <= page /\ page <= Max(0, LastPage(total[s]))
          /\ page \notin fetchingPages[s]
          /\ page \in fetchingPages'[s]]_vars

\* with the window at the end of the table the session has requested the
\* last two pages, and nothing beyond the last page
C35_Witness ==
  \E s \in Sessions :
    /\ total[s] = ScrollRows
    /\ fetchedPages[s] = {0}
    /\ fetchingPages[s] = {LastPage(ScrollRows) - 1, LastPage(ScrollRows)}
    /\ reads[s] = <<ReadRequest(LastPage(ScrollRows) - 1), ReadRequest(LastPage(ScrollRows))>>

====
